---- MODULE Spec2Model ----
(***************************************************************************)
(* Model of the real-time factorization service (real-time-system/src):    *)
(* the FactorizationCache (cache/memory.rs), the cache loader task         *)
(* (cache/loader.rs), the LoadBalancer request counter and load level      *)
(* (load_balancer/mod.rs), the request handlers (web/handlers.rs) and the  *)
(* start-up sequence of main (main.rs).                                    *)
(*                                                                         *)
(* Every atomic access to shared memory (an atomic fetch_add / load, one   *)
(* DashMap operation) is one step; the local computation that follows an   *)
(* access is folded into that access's step.                               *)
(***************************************************************************)
EXTENDS Integers, Sequences, FiniteSets, TLC

VARIABLES
    inner,            \* FactorizationCache.inner : DashMap<u64, CacheEntry>
    total_requests,   \* FactorizationCache.total_requests : AtomicU64
    cache_hits,       \* FactorizationCache.cache_hits : AtomicU64
    active_requests,  \* LoadBalancer.active_requests : AtomicUsize
    config,           \* LoadBalancer.config : LoadBalancerConfig
    mainPc,           \* position of main(): "startup" | "serving"
    tasks,            \* background tasks that have been spawned
    load,             \* per caller, the frame of its load_from_file call
    handler,          \* per worker, the frame of its factorize_handler call
    stats,            \* the frame of the cache statistics reader; its fields quiet, n, h
                      \* are history: no get() ran during the call, and the
                      \* completed and hit get() counts the call was made at
    probe,            \* result of the last get_load_level() probe
    started,          \* number of factorize requests accepted so far
    reloads,          \* number of load_from_file calls of the loader task
    nLookups,         \* history: completed get() calls
    nFound,           \* history: completed get() calls that found a record
    inserted,         \* history: per key, the record last passed to insert_with_factors
    reloaded,         \* history: per key, the record a reload wrote after that insert
    loadHist,         \* history: per load_from_file call, what it saw and wrote
    current_worker_threads,  \* LoadBalancer.current_worker_threads : AtomicUsize
    load_history,     \* LoadBalancer.load_history : the series "active_requests", empty
                      \* while the map has no such key (the key is created by the
                      \* first push and is never left with an empty series)
    monitor,          \* the frame of the caller of record_load_history and
                      \* adjust_worker_threads (the monitoring task); its field
                      \* level_load is history: the count the level was read from
    lbstats,          \* the frame of the get_stats call in progress
    ticks,            \* number of ticks of the monitoring loop so far
    samples           \* history: the counts sampled by record_load_history, in order

cacheVars == <<inner, total_requests, cache_hits>>
histVars == <<nLookups, nFound, inserted, reloaded, loadHist>>
lbVars == <<current_worker_threads, load_history, monitor, lbstats, ticks, samples>>
vars == <<inner, total_requests, cache_hits, active_requests, config, mainPc, tasks,
          load, handler, stats, probe, started, reloads,
          nLookups, nFound, inserted, reloaded, loadHist,
          current_worker_threads, load_history, monitor, lbstats, ticks, samples>>

----------------------------------------------------------------------------
(* Bounds of the model *)

NumHandlers == 2    \* concurrently running request workers
MaxRequests == 2    \* factorize requests accepted in one behaviour
MaxReloads == 1     \* load_from_file calls made by the loader task
MaxActive == 17     \* largest active-request count probed for its load level
MaxTicks == 102     \* ticks of the monitoring loop in one behaviour
MaxBacklog == 2     \* requests in flight beside a get_stats call
MaxHeld == 1        \* requests that stay in flight while the history fills
MaxNumber == 1000   \* largest number handed to factorize

Handlers == 1..NumHandlers

\* Request inputs: one below the valid minimum, one composite, one prime >= 1000.
Numbers == {1, 15, 1009}

NoEntry == [none |-> TRUE]            \* Option::None of a CacheEntry
Malformed == [malformed |-> TRUE]     \* an item of the snapshot that does not deserialize

----------------------------------------------------------------------------
(* factorization/simple.rs *)

RECURSIVE StripFactor(_, _, _)
\* while n % p == 0 { factors.push(p); n /= p; }
StripFactor(n, p, fs) ==
    IF n % p = 0 THEN StripFactor(n \div p, p, Append(fs, p))
    ELSE [n |-> n, factors |-> fs]

RECURSIVE OddLoop(_, _, _)
\* while i * i <= n { strip i; i += 2; }
OddLoop(n, i, fs) ==
    IF i * i <= n
    THEN LET s == StripFactor(n, i, fs) IN OddLoop(s.n, i + 2, s.factors)
    ELSE [n |-> n, factors |-> fs]

\* Mutant: the factor left after the loop is dropped.
factorize_without_rest(n) ==
    LET a == StripFactor(n, 2, <<>>)
        b == OddLoop(a.n, 3, a.factors)
    IN b.factors

factorize(n) ==
    LET a == StripFactor(n, 2, <<>>)
        b == OddLoop(a.n, 3, a.factors)
    IN IF b.n > 1 THEN Append(b.factors, b.n) ELSE b.factors

small_primes == <<2, 3, 5, 7, 11, 13, 17, 19, 23, 29>>

RECURSIVE FastLoop(_, _, _)
\* for &p in &small_primes { strip p; if p * p > n { break; } }
FastLoop(n, idx, fs) ==
    IF idx > Len(small_primes) THEN [n |-> n, factors |-> fs]
    ELSE LET p == small_primes[idx]
             s == StripFactor(n, p, fs)
         IN IF p * p > s.n THEN s ELSE FastLoop(s.n, idx + 1, s.factors)

factorize_fast(n) ==
    LET r == FastLoop(n, 1, <<>>)
    IN IF r.n > 1 /\ r.n < 1000 THEN Append(r.factors, r.n)
       ELSE IF r.n > 1 THEN Append(Append(r.factors, r.n), 0)
       ELSE r.factors

----------------------------------------------------------------------------
(* models.rs *)

CacheEntry(n, fs, ms, alg) ==
    [number |-> n, factors |-> fs, computation_time_ms |-> ms, algorithm |-> alg]

\* Records of the externally written snapshot file data/cache.json.
SnapEntry(n, ms) == CacheEntry(n, factorize(n), ms, "snapshot")

\* Contents the snapshot file can have when it is opened.
MissingFile == [exists |-> FALSE, items |-> <<>>]
File(items) == [exists |-> TRUE, items |-> items]

Snapshots ==
    { MissingFile,
      File(<<SnapEntry(15, 1), SnapEntry(15, 2)>>),
      File(<<SnapEntry(15, 2), SnapEntry(1009, 1)>>),
      File(<<Malformed>>),
      File(<<SnapEntry(15, 1), Malformed>>) }

----------------------------------------------------------------------------
(* cache/memory.rs *)

ValidKeys == {n \in Numbers : n >= 2}

\* Mutant: the insert rebuilds the map from the new entry alone.
MapInsertLossy(m, k, e) == [x \in {k} |-> e]

\* DashMap::insert: one atomic overwrite of the key's slot.
MapInsert(m, k, e) == [x \in (DOMAIN m) \cup {k} |-> IF x = k THEN e ELSE m[x]]

\* Mutant: the lookup is not counted.
CountRequestDropped(total) == total

\* self.total_requests.fetch_add(1) at the head of get().  The counters are
\* 64 bits wide; MaxRequests keeps them far from the wrap.
CountRequest(total) == total + 1

\* self.cache_hits.fetch_add(1) on the hit branch of get().
CountHit(hits) == hits + 1

insert_with_factors(m, n, factors, computation_time_ms, algorithm) ==
    MapInsert(m, n, CacheEntry(n, factors, computation_time_ms, algorithm))

\* Mutant: the misses are divided by the lookups.
get_hit_rate_misses(total, hits) ==
    IF total = 0 THEN [num |-> 0, den |-> 1] ELSE [num |-> total - hits, den |-> total]

\* hits as f64 / total as f64, kept as the fraction num/den (exact for the
\* counts reached here, all far below 2^53); 0.0 is 0/1.
get_hit_rate(total, hits) ==
    IF total = 0 THEN [num |-> 0, den |-> 1] ELSE [num |-> hits, den |-> total]

get_cache_stats(total, hits) ==
    [total |-> total, hits |-> hits, rate |-> get_hit_rate(total, hits)]

\* serde_json::from_reader::<Vec<CacheEntry>> succeeds only on a document that
\* deserializes as a whole.
WellFormed(reader) == \A i \in 1..Len(reader) : reader[i] # Malformed

IdleLoad == [pc |-> "idle", reader |-> <<>>, pending |-> <<>>, count |-> 0]

\* File::open(path)? : the frame after line 60, on the file found there.
LoadOpened(file) ==
    IF ~file.exists THEN [IdleLoad EXCEPT !.pc = "err"]
    ELSE [IdleLoad EXCEPT !.pc = "parse", !.reader = file.items]

\* Mutant: the document is deserialized entry by entry while inserting, so a
\* malformed item is met after the entries before it are in the cache.
LoadFromFileStepStreaming(call, m) ==
    IF call.pc = "parse"
    THEN [call |-> [call EXCEPT !.pc = IF Len(call.reader) = 0 THEN "ok" ELSE "insert",
                                !.pending = call.reader,
                                !.count = Len(call.reader)],
          inner |-> m]
    ELSE LET entry == Head(call.pending)
             rest == Tail(call.pending)
         IN IF entry = Malformed
            THEN [call |-> [call EXCEPT !.pc = "err"], inner |-> m]
            ELSE [call |-> [call EXCEPT !.pending = rest,
                                        !.pc = IF rest = <<>> THEN "ok" ELSE "insert"],
                  inner |-> MapInsert(m, entry.number, entry)]

\* Mutant: a successful parse clears the cache before the entries go in.
LoadFromFileStepReplacing(call, m) ==
    IF call.pc = "parse"
    THEN IF ~WellFormed(call.reader)
         THEN [call |-> [call EXCEPT !.pc = "err"], inner |-> m]
         ELSE [call |-> [call EXCEPT !.pc = IF Len(call.reader) = 0 THEN "ok" ELSE "insert",
                                     !.pending = call.reader,
                                     !.count = Len(call.reader)],
               inner |-> <<>>]
    ELSE LET entry == Head(call.pending)
             rest == Tail(call.pending)
         IN [call |-> [call EXCEPT !.pending = rest,
                                   !.pc = IF rest = <<>> THEN "ok" ELSE "insert"],
             inner |-> MapInsert(m, entry.number, entry)]

\* One step of load_from_file after the file is open: the parse of the whole
\* document, then one insert per entry, then Ok(count).
LoadFromFileStep(call, m) ==
    IF call.pc = "parse"
    THEN IF ~WellFormed(call.reader)
         THEN [call |-> [call EXCEPT !.pc = "err"], inner |-> m]
         ELSE [call |-> [call EXCEPT !.pc = IF Len(call.reader) = 0 THEN "ok" ELSE "insert",
                                     !.pending = call.reader,
                                     !.count = Len(call.reader)],
               inner |-> m]
    ELSE LET entry == Head(call.pending)
             rest == Tail(call.pending)
         IN [call |-> [call EXCEPT !.pending = rest,
                                   !.pc = IF rest = <<>> THEN "ok" ELSE "insert"],
             inner |-> MapInsert(m, entry.number, entry)]

----------------------------------------------------------------------------
(* load_balancer/mod.rs *)

\* The LoadBalancerConfig the server runs with.  main.rs sets the thresholds
\* 3 and 15; they are scaled down here so that NumHandlers requests in flight
\* reach the High level.
ServerConfig ==
    [low_load_threshold |-> 0, high_load_threshold |-> 1,
     check_interval_ms |-> 3000, max_compute_threads |-> 4, max_query_threads |-> 8]

increment_request(active) == active + 1

\* fetch_sub(1): a result of -1 stands for the wrap to usize::MAX.
decrement_request(active) == active - 1

\* Mutant: the thresholds themselves count as Low and High.
get_load_level_inclusive(current, cfg) ==
    IF current <= cfg.low_load_threshold THEN "Low"
    ELSE IF current >= cfg.high_load_threshold THEN "High"
    ELSE "Normal"

get_load_level(current, cfg) ==
    IF current < cfg.low_load_threshold THEN "Low"
    ELSE IF current > cfg.high_load_threshold THEN "High"
    ELSE "Normal"

\* if history.len() > 100 { history.remove(0); }
HistoryCapacity == 100

Max(a, b) == IF a >= b THEN a ELSE b

\* usize::saturating_sub
SaturatingSub(a, b) == IF a >= b THEN a - b ELSE 0

\* usize::clamp(self, min, max) begins with assert!(min <= max).
ClampPanics(lo, hi) == lo > hi

\* Mutant: the result is not clamped.
ClampLoose(x, lo, hi) == x

Clamp(x, lo, hi) == IF x < lo THEN lo ELSE IF x > hi THEN hi ELSE x

\* Mutant: the Normal branch switches to two thirds above 5 only.
NewThreadsLate(load_level, current_load, cfg) ==
    IF load_level = "Low" THEN Max(2, cfg.max_query_threads \div 2)
    ELSE IF load_level = "Normal"
         THEN IF current_load <= 5 THEN cfg.max_query_threads \div 2
              ELSE (cfg.max_query_threads * 2) \div 3
    ELSE cfg.max_query_threads

\* adjust_worker_threads 99-116: the match on the load level.  The products
\* and sums of the configurations used here are far below the usize wrap.
NewThreads(load_level, current_load, cfg) ==
    IF load_level = "Low" THEN Max(2, cfg.max_query_threads \div 2)
    ELSE IF load_level = "Normal"
         THEN IF current_load < 5 THEN cfg.max_query_threads \div 2
              ELSE (cfg.max_query_threads * 2) \div 3
    ELSE cfg.max_query_threads

\* Mutant: the compute share is not floored.
calculate_compute_threads_unfloored(cfg, query_threads) ==
    SaturatingSub(cfg.max_compute_threads + cfg.max_query_threads, query_threads)

\* query_threads is the value get_current_worker_threads() returned.
calculate_compute_threads(cfg, query_threads) ==
    Max(SaturatingSub(cfg.max_compute_threads + cfg.max_query_threads, query_threads), 1)

calculate_query_threads(worker_threads) == worker_threads

\* .entry("active_requests").or_insert_with(Vec::new).push(current)
HistoryPush(history, current) == Append(history, current)

\* Mutant: the newest sample is evicted.
HistoryTrimNewest(history) ==
    IF Len(history) > HistoryCapacity THEN SubSeq(history, 1, Len(history) - 1)
    ELSE history

\* if history.len() > 100 { history.remove(0); }
HistoryTrim(history) ==
    IF Len(history) > HistoryCapacity THEN Tail(history) ELSE history

RECURSIVE SumSeq(_)
SumSeq(s) == IF s = <<>> THEN 0 ELSE Head(s) + SumSeq(Tail(s))

\* get_stats 221-229: history.iter().sum::<usize>() / history.len(), 0 when
\* the series is absent or empty.
AverageLoad(history) ==
    IF Len(history) # 0 THEN SumSeq(history) \div Len(history) ELSE 0

IdleMonitor ==
    [pc |-> "idle", api |-> "none", current |-> 0, current_load |-> 0, level_load |-> 0,
     load_level |-> "none", current_threads |-> 0, new_threads |-> 0]

IdleLbStats ==
    [pc |-> "idle", active_requests |-> 0, load_level |-> "none", average_load |-> 0,
     recommended_compute_threads |-> 0, recommended_query_threads |-> 0,
     history_size |-> 0]

----------------------------------------------------------------------------
(* web/handlers.rs : factorize_handler *)

IdleHandler ==
    [pc |-> "idle", number |-> 0, entry |-> NoEntry, level |-> "none",
     factors |-> <<>>, is_prime |-> FALSE, duration_ms |-> 0, response |-> "none"]

\* Mutant: only 0 is rejected.
ValidateNextLax(number) == IF number < 1 THEN "reject" ELSE "get"

\* if number < 2 { decrement; return BadRequest } else continue with cache.get
ValidateNext(number) == IF number < 2 THEN "reject" ELSE "get"

\* Mutant: the early return forgets its decrement.
RejectReleaseForgotten(active) == active

\* The active count left by the early return of an invalid request.
RejectRelease(active) == decrement_request(active)

\* let is_prime = factors.len() == 1 && factors[0] == number;
IsPrime(factors, number) == Len(factors) = 1 /\ factors[1] = number

\* Elapsed milliseconds measured around the (already finished) computation.
Durations == {0, 150}

InFlightPcs == {"validate", "lookup", "hit_count", "hit_return", "level", "insert", "finish"}
InGetPcs == {"lookup", "hit_count"}

InFlight == Cardinality({h \in Handlers : handler[h].pc \in InFlightPcs})
GetInProgress == \E h \in Handlers : handler[h].pc \in InGetPcs

----------------------------------------------------------------------------
(* Initial state: FactorizationCache::new, LoadBalancer::new, main at its
   first statement. *)

Loaders == {"main", "loader"}

IdleStats ==
    [pc |-> "idle", api |-> "none", len |-> 0, is_empty |-> TRUE, total |-> 0,
     hits |-> 0, rate |-> [num |-> 0, den |-> 1], quiet |-> FALSE, n |-> 0, h |-> 0]

IdleLoadHist == [pre |-> <<>>, touched |-> {}, changed |-> FALSE]

\* spawned: the background tasks already running; cfg: the configuration
\* handed to LoadBalancer::new.
Boot(spawned, cfg) ==
    /\ inner = <<>>
    /\ total_requests = 0
    /\ cache_hits = 0
    /\ active_requests = 0
    /\ config = cfg
    /\ mainPc = "startup"
    /\ tasks = spawned
    /\ load = [t \in Loaders |-> IdleLoad]
    /\ handler = [h \in Handlers |-> IdleHandler]
    /\ stats = IdleStats
    /\ probe = "none"
    /\ started = 0
    /\ reloads = 0
    /\ nLookups = 0
    /\ nFound = 0
    /\ inserted = [k \in ValidKeys |-> NoEntry]
    /\ reloaded = [k \in ValidKeys |-> NoEntry]
    /\ loadHist = [t \in Loaders |-> IdleLoadHist]
    /\ current_worker_threads = cfg.max_query_threads
    /\ load_history = <<>>
    /\ monitor = IdleMonitor
    /\ lbstats = IdleLbStats
    /\ ticks = 0
    /\ samples = <<>>

Init == Boot({}, ServerConfig)

----------------------------------------------------------------------------
(* load_from_file, called by main at start-up and by the loader task *)

\* The caller t is at its call of load_from_file.
AtLoadCall(t) ==
    IF t = "main" THEN mainPc = "startup"
    ELSE "cache_loader" \in tasks /\ mainPc = "serving" /\ reloads < MaxReloads

LoadOpen(t, file) ==
    /\ load[t].pc = "idle"
    /\ AtLoadCall(t)
    /\ load' = [load EXCEPT ![t] = LoadOpened(file)]
    /\ loadHist' = [loadHist EXCEPT ![t] = [IdleLoadHist EXCEPT !.pre = inner]]
    /\ reloads' = IF t = "loader" THEN reloads + 1 ELSE reloads
    /\ UNCHANGED <<lbVars, inner, total_requests, cache_hits, active_requests, config,
                   mainPc,
                   tasks, handler, stats, probe, started, nLookups, nFound, inserted,
                   reloaded>>

LoadStep(t) ==
    /\ load[t].pc \in {"parse", "insert"}
    /\ LET r == LoadFromFileStep(load[t], inner)
           written == {k \in ValidKeys :
                          \/ (k \in DOMAIN inner) # (k \in DOMAIN r.inner)
                          \/ k \in DOMAIN inner /\ k \in DOMAIN r.inner /\ inner[k] # r.inner[k]}
       IN /\ load' = [load EXCEPT ![t] = r.call]
          /\ inner' = r.inner
          /\ reloaded' = [k \in ValidKeys |->
                            IF k \in written
                            THEN (IF k \in DOMAIN r.inner THEN r.inner[k] ELSE NoEntry)
                            ELSE reloaded[k]]
          /\ loadHist' = [loadHist EXCEPT ![t].changed = @ \/ (r.inner # inner)]
    /\ UNCHANGED <<lbVars, total_requests, cache_hits, active_requests, config, mainPc,
                   tasks,
                   handler, stats, probe, started, reloads, nLookups, nFound, inserted>>

\* main.rs 32-61: the start-up load has returned (an error is only logged); the
\* monitoring task is spawned and the HTTP server runs.
MainServe ==
    /\ mainPc = "startup"
    /\ load["main"].pc \in {"ok", "err"}
    /\ mainPc' = "serving"
    /\ tasks' = tasks \cup {"load_monitor"}
    /\ load' = [load EXCEPT !["main"] = IdleLoad]
    /\ UNCHANGED <<lbVars, inner, total_requests, cache_hits, active_requests, config,
                   handler,
                   stats, probe, started, reloads, histVars>>

\* loader.rs 11-18: the result is logged and the loop goes back to sleep.
LoaderResume ==
    /\ "cache_loader" \in tasks
    /\ load["loader"].pc \in {"ok", "err"}
    /\ load' = [load EXCEPT !["loader"] = IdleLoad]
    /\ UNCHANGED <<lbVars, inner, total_requests, cache_hits, active_requests, config,
                   mainPc,
                   tasks, handler, stats, probe, started, reloads, histVars>>

----------------------------------------------------------------------------
(* web/handlers.rs : factorize_handler, one step per shared access *)

SetHandler(h, frame) == handler' = [handler EXCEPT ![h] = frame]

\* 12: load_balancer.increment_request(); 14: let number = n.into_inner();
\* The workers are interchangeable: a request is taken by the first free one.
HandlerEnter(h, number) ==
    /\ mainPc = "serving"
    /\ handler[h].pc \in {"idle", "done"}
    /\ \A g \in Handlers : g < h => handler[g].pc \notin {"idle", "done"}
    /\ started < MaxRequests
    /\ started' = started + 1
    /\ active_requests' = increment_request(active_requests)
    /\ SetHandler(h, [IdleHandler EXCEPT !.pc = "validate", !.number = number])
    /\ UNCHANGED <<lbVars, cacheVars, config, mainPc, tasks, load, stats, probe, reloads,
                   histVars>>

\* 17-22: the invalid input returns early, after its decrement.
HandlerReject(h) ==
    /\ handler[h].pc = "validate"
    /\ ValidateNext(handler[h].number) = "reject"
    /\ active_requests' = RejectRelease(active_requests)
    /\ SetHandler(h, [handler[h] EXCEPT !.pc = "done", !.response = "bad_request"])
    /\ UNCHANGED <<lbVars, cacheVars, config, mainPc, tasks, load, stats, probe, started,
                   reloads,
                   histVars>>

\* 25 -> memory.rs 24: get() counts the lookup first.
HandlerGetCount(h) ==
    /\ handler[h].pc = "validate"
    /\ ValidateNext(handler[h].number) = "get"
    /\ total_requests' = CountRequest(total_requests)
    /\ SetHandler(h, [handler[h] EXCEPT !.pc = "lookup"])
    /\ UNCHANGED <<lbVars, inner, cache_hits, active_requests, config, mainPc, tasks, load,
                   stats,
                   probe, started, reloads, histVars>>

\* memory.rs 26: self.inner.get(&n); a miss returns None at once.  On a hit
\* the DashMap guard keeps the shard read-locked until the entry is cloned;
\* the entry is therefore taken here, and writers that the lock would delay
\* are let through (more interleavings, never fewer).
HandlerGetLookup(h) ==
    /\ handler[h].pc = "lookup"
    /\ IF handler[h].number \in DOMAIN inner
       THEN /\ SetHandler(h, [handler[h] EXCEPT !.pc = "hit_count",
                                                !.entry = inner[handler[h].number]])
            /\ UNCHANGED nLookups
       ELSE /\ SetHandler(h, [handler[h] EXCEPT !.pc = "level"])
            /\ nLookups' = nLookups + 1
    /\ UNCHANGED <<lbVars, cacheVars, active_requests, config, mainPc, tasks, load, stats,
                   probe,
                   started, reloads, nFound, inserted, reloaded, loadHist>>

\* memory.rs 28-29: the hit is counted and the entry cloned.
HandlerGetHit(h) ==
    /\ handler[h].pc = "hit_count"
    /\ cache_hits' = CountHit(cache_hits)
    /\ SetHandler(h, [handler[h] EXCEPT !.pc = "hit_return"])
    /\ nLookups' = nLookups + 1
    /\ nFound' = nFound + 1
    /\ UNCHANGED <<lbVars, inner, total_requests, active_requests, config, mainPc, tasks,
                   load,
                   stats, probe, started, reloads, inserted, reloaded, loadHist>>

\* 26-36: the cached entry is answered after the decrement.
HandlerHitReturn(h) ==
    /\ handler[h].pc = "hit_return"
    /\ active_requests' = decrement_request(active_requests)
    /\ SetHandler(h, [handler[h] EXCEPT
                        !.pc = "done",
                        !.entry = NoEntry,
                        !.factors = handler[h].entry.factors,
                        !.is_prime = IsPrime(handler[h].entry.factors, handler[h].number),
                        !.duration_ms = handler[h].entry.computation_time_ms,
                        !.response = "ok_cached"])
    /\ UNCHANGED <<lbVars, cacheVars, config, mainPc, tasks, load, stats, probe, started,
                   reloads,
                   histVars>>

\* 40-58: the load level is read, the factors computed by the level's
\* algorithm, and the elapsed time taken.
HandlerCompute(h, ms) ==
    /\ handler[h].pc = "level"
    /\ LET level == get_load_level(active_requests, config)
           factors == IF level = "High" THEN factorize_fast(handler[h].number)
                      ELSE factorize(handler[h].number)
       IN SetHandler(h, [handler[h] EXCEPT
                           !.pc = IF ms > 100 THEN "insert" ELSE "finish",
                           !.level = level,
                           !.factors = factors,
                           !.is_prime = IsPrime(factors, handler[h].number),
                           !.duration_ms = ms])
    /\ UNCHANGED <<lbVars, cacheVars, active_requests, config, mainPc, tasks, load, stats,
                   probe,
                   started, reloads, histVars>>

\* 61-68: a slow computation is cached.
HandlerInsert(h) ==
    /\ handler[h].pc = "insert"
    /\ LET n == handler[h].number
           m == insert_with_factors(inner, n, handler[h].factors, handler[h].duration_ms,
                                    "simple_trial")
       IN /\ inner' = m
          /\ inserted' = [inserted EXCEPT ![n] = CacheEntry(n, handler[h].factors,
                                                           handler[h].duration_ms,
                                                           "simple_trial")]
          /\ reloaded' = [reloaded EXCEPT ![n] = NoEntry]
          /\ loadHist' = [t \in Loaders |->
                            IF load[t].pc = "idle" THEN loadHist[t]
                            ELSE [loadHist[t] EXCEPT !.touched = @ \cup {n}]]
    /\ SetHandler(h, [handler[h] EXCEPT !.pc = "finish"])
    /\ UNCHANGED <<lbVars, total_requests, cache_hits, active_requests, config, mainPc,
                   tasks,
                   load, stats, probe, started, reloads, nLookups, nFound>>

\* 70-78: the computed result is answered after the decrement.
HandlerFinish(h) ==
    /\ handler[h].pc = "finish"
    /\ active_requests' = decrement_request(active_requests)
    /\ SetHandler(h, [handler[h] EXCEPT !.pc = "done", !.level = "none",
                                        !.response = "ok_computed"])
    /\ UNCHANGED <<lbVars, cacheVars, config, mainPc, tasks, load, stats, probe, started,
                   reloads,
                   histVars>>

HandlerStep(h) ==
    \/ \E number \in Numbers : HandlerEnter(h, number)
    \/ HandlerReject(h)
    \/ HandlerGetCount(h)
    \/ HandlerGetLookup(h)
    \/ HandlerGetHit(h)
    \/ HandlerHitReturn(h)
    \/ \E ms \in Durations : HandlerCompute(h, ms)
    \/ HandlerInsert(h)
    \/ HandlerFinish(h)

----------------------------------------------------------------------------
(* web/handlers.rs : cache_stats_handler, and the cache's statistics readers *)

StatsUnchanged ==
    UNCHANGED <<lbVars, cacheVars, active_requests, config, mainPc, tasks, load, handler,
                probe,
                started, reloads, histVars>>

\* A request for /api/stats arrives.
CacheStatsHandlerStart ==
    /\ mainPc = "serving"
    /\ stats.pc \in {"idle", "done"}
    /\ stats' = [IdleStats EXCEPT !.pc = "len", !.api = "cache_stats_handler"]
    /\ StatsUnchanged

\* 124: let count = cache.len();
StatsLen ==
    /\ stats.pc = "len"
    /\ stats' = [stats EXCEPT !.pc = "is_empty", !.len = Cardinality(DOMAIN inner)]
    /\ StatsUnchanged

\* 125: let is_empty = cache.is_empty();
StatsIsEmpty ==
    /\ stats.pc = "is_empty"
    /\ stats' = [stats EXCEPT !.pc = "total", !.is_empty = (DOMAIN inner = {})]
    /\ StatsUnchanged

\* A direct call of get_cache_stats() by a holder of the cache.
GetCacheStatsStart ==
    /\ mainPc = "serving"
    /\ stats.pc \in {"idle", "done"}
    /\ stats' = [IdleStats EXCEPT !.pc = "total", !.api = "get_cache_stats"]
    /\ StatsUnchanged

\* memory.rs 74 / 86: let total = self.total_requests.load(SeqCst);
StatsLoadTotal ==
    /\ stats.pc = "total"
    /\ stats' = [stats EXCEPT !.pc = "hits", !.total = total_requests,
                              !.quiet = ~GetInProgress,
                              !.n = IF GetInProgress THEN 0 ELSE nLookups,
                              !.h = IF GetInProgress THEN 0 ELSE nFound]
    /\ StatsUnchanged

\* memory.rs 75-81 / 87-90: let hits = self.cache_hits.load(SeqCst); and the rate.
StatsLoadHits ==
    /\ stats.pc = "hits"
    /\ LET still == stats.quiet /\ ~GetInProgress /\ total_requests = stats.total
       IN stats' = [stats EXCEPT
                      !.pc = "done",
                      !.hits = cache_hits,
                      !.rate = IF stats.api = "get_cache_stats"
                               THEN get_cache_stats(stats.total, cache_hits).rate
                               ELSE get_hit_rate(stats.total, cache_hits),
                      !.quiet = still,
                      !.n = IF still THEN stats.n ELSE 0,
                      !.h = IF still THEN stats.h ELSE 0]
    /\ StatsUnchanged

----------------------------------------------------------------------------
(* load_balancer/mod.rs : get_load_level as a function of its inputs *)

ProbeConfigs ==
    {[ServerConfig EXCEPT !.low_load_threshold = lo, !.high_load_threshold = hi] :
        lo \in {0, 1, 3, 5}, hi \in {1, 2, 15, 20}}

InitLevel ==
    \E c \in {pc \in ProbeConfigs : pc.low_load_threshold < pc.high_load_threshold} :
        Boot({}, c)

\* A request enters or leaves: increment_request / decrement_request.
ProbeIncrement ==
    /\ active_requests < MaxActive
    /\ active_requests' = increment_request(active_requests)
    /\ probe' = "none"
    /\ UNCHANGED <<lbVars, cacheVars, config, mainPc, tasks, load, handler, stats, started,
                   reloads, histVars>>

ProbeDecrement ==
    /\ active_requests > 0
    /\ active_requests' = decrement_request(active_requests)
    /\ probe' = "none"
    /\ UNCHANGED <<lbVars, cacheVars, config, mainPc, tasks, load, handler, stats, started,
                   reloads, histVars>>

ProbeLevel ==
    /\ probe' = get_load_level(active_requests, config)
    /\ UNCHANGED <<lbVars, cacheVars, active_requests, config, mainPc, tasks, load, handler,
                   stats, started, reloads, histVars>>

----------------------------------------------------------------------------
(* load_balancer/mod.rs : the monitoring loop, record_load_history and
   adjust_worker_threads, one step per shared access.  The reads made only to
   fill a log line (170-176, 195-197) change nothing and are left in the step
   before them. *)

MonitorUnchanged ==
    UNCHANGED <<cacheVars, active_requests, config, mainPc, tasks, load, handler, stats,
                probe, started, reloads, histVars, lbstats>>

\* 186-189 -> 155: the interval fires and record_load_history reads the count.
MonitorTick ==
    /\ "load_monitor" \in tasks
    /\ monitor.pc \in {"idle", "adjusted"}
    /\ ticks < MaxTicks
    /\ ticks' = ticks + 1
    /\ samples' = Append(samples, active_requests)
    /\ monitor' = [IdleMonitor EXCEPT !.pc = "push", !.api = "start_monitoring",
                                      !.current = active_requests]
    /\ UNCHANGED <<current_worker_threads, load_history>>
    /\ MonitorUnchanged

\* 158-161: the sample is pushed under the entry's lock, which is then released.
MonitorPush ==
    /\ monitor.pc = "push"
    /\ load_history' = HistoryPush(load_history, monitor.current)
    /\ monitor' = [monitor EXCEPT !.pc = "trim"]
    /\ UNCHANGED <<current_worker_threads, ticks, samples>>
    /\ MonitorUnchanged

\* 164-168: the series is locked again and trimmed; record_load_history returns.
MonitorTrim ==
    /\ monitor.pc = "trim"
    /\ load_history' = HistoryTrim(load_history)
    /\ monitor' = [monitor EXCEPT !.pc = "adjust"]
    /\ UNCHANGED <<current_worker_threads, ticks, samples>>
    /\ MonitorUnchanged

\* 94: let current_load = self.get_active_requests();
AdjustLoaded(frame) == [frame EXCEPT !.pc = "level", !.current_load = active_requests]

\* 192: the loop calls adjust_worker_threads.
AdjustLoad ==
    /\ monitor.pc = "adjust"
    /\ monitor' = AdjustLoaded(monitor)
    /\ UNCHANGED <<current_worker_threads, load_history, ticks, samples>>
    /\ MonitorUnchanged

\* A direct call of adjust_worker_threads() by a holder of the LoadBalancer.
AdjustCall ==
    /\ monitor.pc \in {"idle", "adjusted"}
    /\ monitor' = AdjustLoaded([IdleMonitor EXCEPT !.api = "adjust_worker_threads"])
    /\ UNCHANGED <<current_worker_threads, load_history, ticks, samples>>
    /\ MonitorUnchanged

\* 95: let load_level = self.get_load_level(); a second read of the count.
AdjustLevel ==
    /\ monitor.pc = "level"
    /\ monitor' = [monitor EXCEPT !.pc = "threads",
                                  !.load_level = get_load_level(active_requests, config),
                                  !.level_load = active_requests]
    /\ UNCHANGED <<current_worker_threads, load_history, ticks, samples>>
    /\ MonitorUnchanged

\* 96-119: the stored thread count is read, the new one computed and clamped;
\* the clamp panics when its bounds are out of order.
AdjustThreads ==
    /\ monitor.pc = "threads"
    /\ LET raw == NewThreads(monitor.load_level, monitor.current_load, config)
       IN monitor' =
            IF ClampPanics(2, config.max_query_threads)
            THEN [monitor EXCEPT !.pc = "panicked",
                                 !.current_threads = current_worker_threads]
            ELSE [monitor EXCEPT !.pc = "store",
                                 !.current_threads = current_worker_threads,
                                 !.new_threads = Clamp(raw, 2, config.max_query_threads)]
    /\ UNCHANGED <<current_worker_threads, load_history, ticks, samples>>
    /\ MonitorUnchanged

\* 122-137: a changed count is stored (and logged); new_threads is returned.
AdjustStore ==
    /\ monitor.pc = "store"
    /\ current_worker_threads' =
          IF monitor.new_threads # monitor.current_threads THEN monitor.new_threads
          ELSE current_worker_threads
    /\ monitor' = [monitor EXCEPT !.pc = "adjusted"]
    /\ UNCHANGED <<load_history, ticks, samples>>
    /\ MonitorUnchanged

----------------------------------------------------------------------------
(* load_balancer/mod.rs : get_stats, one step per shared access *)

LbStatsUnchanged ==
    UNCHANGED <<cacheVars, active_requests, config, mainPc, tasks, load, handler, stats,
                probe, started, reloads, histVars, current_worker_threads, load_history,
                monitor, ticks, samples>>

\* 218: let current = self.get_active_requests();
GetStatsCall ==
    /\ lbstats.pc \in {"idle", "done"}
    /\ lbstats' = [IdleLbStats EXCEPT !.pc = "level", !.active_requests = active_requests]
    /\ LbStatsUnchanged

\* 219: let level = self.get_load_level();
GetStatsLevel ==
    /\ lbstats.pc = "level"
    /\ lbstats' = [lbstats EXCEPT !.pc = "average",
                                  !.load_level = get_load_level(active_requests, config)]
    /\ LbStatsUnchanged

\* 221-229: the average, under one read lock of the series.
GetStatsAverage ==
    /\ lbstats.pc = "average"
    /\ lbstats' = [lbstats EXCEPT !.pc = "compute",
                                  !.average_load = AverageLoad(load_history)]
    /\ LbStatsUnchanged

\* 234: recommended_compute_threads: self.calculate_compute_threads()
GetStatsCompute ==
    /\ lbstats.pc = "compute"
    /\ lbstats' = [lbstats EXCEPT
                     !.pc = "query",
                     !.recommended_compute_threads =
                         calculate_compute_threads(config, current_worker_threads)]
    /\ LbStatsUnchanged

\* 235: recommended_query_threads: self.calculate_query_threads()
GetStatsQuery ==
    /\ lbstats.pc = "query"
    /\ lbstats' = [lbstats EXCEPT
                     !.pc = "size",
                     !.recommended_query_threads =
                         calculate_query_threads(current_worker_threads)]
    /\ LbStatsUnchanged

\* 237-239: history_size, under another read lock of the series.
GetStatsSize ==
    /\ lbstats.pc = "size"
    /\ lbstats' = [lbstats EXCEPT !.pc = "done", !.history_size = Len(load_history)]
    /\ LbStatsUnchanged

\* handlers.rs 105-109: system_health_handler's status for a get_stats result.
HealthStatus(load_level) == IF load_level = "High" THEN "degraded" ELSE "healthy"

----------------------------------------------------------------------------
(* Specifications *)

\* The server as main.rs starts it: the start-up load, then the request
\* handlers.  main never spawns start_cache_loader.  The monitoring task it
\* spawns writes current_worker_threads and load_history only, which no
\* handler reads; its steps are in NextHistory.
Next ==
    \/ \E file \in Snapshots : LoadOpen("main", file)
    \/ LoadStep("main")
    \/ MainServe
    \/ \E h \in Handlers : HandlerStep(h)
    \/ CacheStatsHandlerStart
    \/ StatsLen
    \/ StatsIsEmpty
    \/ StatsLoadTotal
    \/ StatsLoadHits

Spec == Init /\ [][Next]_vars

\* The cache with the loader task of cache/loader.rs running beside the
\* request handlers.
InitCache == Boot({"cache_loader"}, ServerConfig)

NextCache ==
    \/ \E file \in Snapshots : LoadOpen("main", file)
    \/ LoadStep("main")
    \/ MainServe
    \/ \E h \in Handlers : HandlerStep(h)
    \/ \E file \in Snapshots : LoadOpen("loader", file)
    \/ LoadStep("loader")
    \/ LoaderResume

SpecCache == InitCache /\ [][NextCache]_vars

\* The same with the statistics readers: the /api/stats handler and direct
\* calls of get_cache_stats.
NextCacheStats ==
    \/ NextCache
    \/ CacheStatsHandlerStart
    \/ GetCacheStatsStart
    \/ StatsLen
    \/ StatsIsEmpty
    \/ StatsLoadTotal
    \/ StatsLoadHits

SpecCacheStats == InitCache /\ [][NextCacheStats]_vars

\* get_load_level over configurations and active counts.
NextLevel == ProbeIncrement \/ ProbeDecrement \/ ProbeLevel

SpecLevel == InitLevel /\ [][NextLevel]_vars

\* LoadBalancerConfig values with low < high and room for two query threads.
AdjustConfigs ==
    {[ServerConfig EXCEPT !.low_load_threshold = th[1], !.high_load_threshold = th[2],
                          !.max_query_threads = mq] :
        th \in {<<1, 3>>, <<3, 15>>, <<6, 10>>}, mq \in {2, 3, 8}}

\* The same with fewer than two query threads as well.
AnyConfigs ==
    AdjustConfigs \cup
    {[ServerConfig EXCEPT !.low_load_threshold = 3, !.high_load_threshold = 15,
                          !.max_query_threads = mq] : mq \in {0, 1}}

InitAdjust == \E c \in AdjustConfigs : Boot({}, c)

InitAdjustAny == \E c \in AnyConfigs : Boot({}, c)

\* adjust_worker_threads called again and again while requests enter and leave.
NextAdjust ==
    \/ ProbeIncrement
    \/ ProbeDecrement
    \/ AdjustCall
    \/ AdjustLevel
    \/ AdjustThreads
    \/ AdjustStore

SpecAdjust == InitAdjust /\ [][NextAdjust]_vars

SpecAdjustAny == InitAdjustAny /\ [][NextAdjust]_vars

\* Thread budgets for get_stats, under the thresholds of ServerConfig.
StatsConfigs ==
    {[ServerConfig EXCEPT !.max_compute_threads = mc, !.max_query_threads = mq] :
        mc \in {0, 1, 4}, mq \in {2, 8}}

InitStats == \E c \in StatsConfigs : Boot({}, c)

\* A request enters while fewer than MaxBacklog are in flight.
BacklogIncrement ==
    /\ active_requests < MaxBacklog
    /\ ProbeIncrement

\* get_stats beside adjust_worker_threads and a changing load.
NextStats ==
    \/ BacklogIncrement
    \/ ProbeDecrement
    \/ AdjustCall
    \/ AdjustLevel
    \/ AdjustThreads
    \/ AdjustStore
    \/ GetStatsCall
    \/ GetStatsLevel
    \/ GetStatsAverage
    \/ GetStatsCompute
    \/ GetStatsQuery
    \/ GetStatsSize

SpecStats == InitStats /\ [][NextStats]_vars

\* The monitoring task is running.
InitHistory == Boot({"load_monitor"}, ServerConfig)

\* A request enters and stays in flight, while fewer than MaxHeld are.
HeldIncrement ==
    /\ active_requests < MaxHeld
    /\ ProbeIncrement

\* The ticks of the monitoring loop: record_load_history, then
\* adjust_worker_threads.
MonitorStep ==
    \/ MonitorTick
    \/ MonitorPush
    \/ MonitorTrim
    \/ AdjustLoad
    \/ AdjustLevel
    \/ AdjustThreads
    \/ AdjustStore

\* The monitoring loop while the load rises.
NextHistory ==
    \/ HeldIncrement
    \/ MonitorStep

SpecHistory == InitHistory /\ [][NextHistory]_vars

\* The monitoring loop beside get_stats calls.
NextHistoryStats ==
    \/ MonitorStep
    \/ GetStatsCall
    \/ GetStatsLevel
    \/ GetStatsAverage
    \/ GetStatsCompute
    \/ GetStatsQuery
    \/ GetStatsSize

SpecHistoryStats == InitHistory /\ [][NextHistoryStats]_vars

\* One request for each number from 2 to MaxNumber, served at Normal load
\* over an empty cache.
FactorizeInputs == 2..MaxNumber

FactorizeRequest(number) ==
    /\ started = 0
    /\ HandlerEnter(1, number)

NextFactorize ==
    \/ LoadOpen("main", MissingFile)
    \/ MainServe
    \/ \E number \in FactorizeInputs : FactorizeRequest(number)
    \/ HandlerGetCount(1)
    \/ HandlerGetLookup(1)
    \/ HandlerCompute(1, 0)
    \/ HandlerFinish(1)

SpecFactorize == Init /\ [][NextFactorize]_vars

----------------------------------------------------------------------------
(* Properties of the cache counters *)

\* C1: in every reachable state, under any interleaving of get, insert and
\* reload, the hit counter is at most the lookup counter, and no step
\* decreases either counter.
C1_HitsWithinLookups ==
    /\ [](cache_hits <= total_requests)
    /\ [][total_requests' >= total_requests /\ cache_hits' >= cache_hits]_vars

\* A hit has been counted while another get() has counted its lookup only and
\* the loader is in the middle of its inserts.
C1_Witness ==
    /\ cache_hits = 1
    /\ total_requests = 2
    /\ \E h \in Handlers : handler[h].pc = "lookup"
    /\ load["loader"].pc = "insert"

\* C2: every rate returned by hit_rate() lies in [0,1], whatever get() calls
\* run beside the call.
C2_RateWithinUnit ==
    stats.pc = "done" => stats.rate.num <= stats.rate.den

\* The fraction r is exactly H/N, and 0 when N = 0.
RateIs(r, H, N) == IF N = 0 THEN r.num = 0 ELSE r.num * N = H * r.den

\* C3: with no get() in progress the two counters are the numbers N of
\* completed get() calls and H of those that found a record, whatever inserts
\* and reloads ran in between; and a statistics call made with no get()
\* running beside it reports exactly H/N, and 0 when N = 0.
C3_ExactRate ==
    /\ ~GetInProgress => total_requests = nLookups /\ cache_hits = nFound
    /\ stats.pc = "done" /\ stats.quiet => RateIs(stats.rate, stats.h, stats.n)

\* A rate of 1/2 reported after two lookups, one a hit, with an insert and a
\* reload behind them.
C3_Witness ==
    /\ stats.pc = "done"
    /\ stats.quiet
    /\ stats.n = 2
    /\ stats.h = 1
    /\ stats.rate = [num |-> 1, den |-> 2]
    /\ reloads = 1
    /\ \E k \in ValidKeys : inserted[k] # NoEntry

----------------------------------------------------------------------------
(* Properties of insert and reload *)

\* C4 as claimed: every key that was inserted is in the cache with the record
\* that was inserted for it, in any interleaving with gets and a reload.
C4_InsertedRecordKept ==
    \A k \in ValidKeys :
        inserted[k] # NoEntry => k \in DOMAIN inner /\ inner[k] = inserted[k]

\* C4 as amended: every key that was inserted is in the cache; it holds the
\* record that was inserted for it unless a reload wrote the key after the
\* insert, and then it holds the record that reload wrote.
C4_InsertedKeyKept ==
    \A k \in ValidKeys :
        inserted[k] # NoEntry =>
            /\ k \in DOMAIN inner
            /\ inner[k] = IF reloaded[k] # NoEntry THEN reloaded[k] ELSE inserted[k]

\* Two workers have just inserted two distinct keys, and the loader has
\* overwritten one of them since.
C4_Witness ==
    /\ \A h \in Handlers : handler[h].pc = "finish" /\ handler[h].duration_ms > 100
    /\ \A k \in ValidKeys : \E h \in Handlers : handler[h].number = k
    /\ \A k \in ValidKeys : inserted[k] # NoEntry
    /\ \E k \in ValidKeys : reloaded[k] # NoEntry

SnapKeys(snap) == {snap[i].number : i \in 1..Len(snap)}

\* The record of key k that comes last in the snapshot.
LastRecord(snap, k) ==
    snap[CHOOSE i \in 1..Len(snap) :
            /\ snap[i].number = k
            /\ \A j \in (i + 1)..Len(snap) : snap[j].number # k]

\* C5: when load_from_file has returned Ok, every key that was in the cache at
\* the call is still present and every key of the snapshot is present; a key of
\* the snapshot holds the snapshot's last record for it, and a key absent from
\* the snapshot holds the record it had at the call (for the keys no request
\* handler wrote while the call ran).
C5_ReloadAdditive ==
    \A t \in Loaders :
        load[t].pc = "ok" =>
            LET snap == load[t].reader
                pre == loadHist[t].pre
                own == ValidKeys \ loadHist[t].touched
            IN /\ DOMAIN pre \subseteq DOMAIN inner
               /\ SnapKeys(snap) \subseteq DOMAIN inner
               /\ \A k \in SnapKeys(snap) \cap own : inner[k] = LastRecord(snap, k)
               /\ \A k \in ((DOMAIN pre) \ SnapKeys(snap)) \cap own : inner[k] = pre[k]
               /\ load[t].count = Len(snap)

\* The loader has returned Ok on a snapshot that repeats key 15, over a cache
\* that held a handler's record for 15 and a record for 1009.
C5_Witness ==
    /\ load["loader"].pc = "ok"
    /\ load["loader"].reader = <<SnapEntry(15, 1), SnapEntry(15, 2)>>
    /\ DOMAIN loadHist["loader"].pre = {15, 1009}
    /\ loadHist["loader"].pre[15].algorithm = "simple_trial"
    /\ loadHist["loader"].touched = {}
    /\ inner[15] = SnapEntry(15, 2)

\* C6: the step on which load_from_file fails (the file does not open, or the
\* document is malformed at any position) leaves the map and both counters as
\* they are, and no earlier step of that call has changed the map; no step of
\* a load changes a counter.
C6_FailedReloadNoChange ==
    [][\A t \in Loaders :
          /\ (load'[t].pc = "err" /\ load[t].pc # "err") =>
                /\ inner' = inner
                /\ ~loadHist'[t].changed
          /\ load'[t] # load[t] =>
                /\ total_requests' = total_requests
                /\ cache_hits' = cache_hits]_vars

\* The loader has failed on a snapshot whose second item is malformed, over a
\* cache that holds records and counters that have counted.
C6_Witness ==
    /\ load["loader"].pc = "err"
    /\ load["loader"].reader = <<SnapEntry(15, 1), Malformed>>
    /\ inner # <<>>
    /\ total_requests > 0
    /\ inner = loadHist["loader"].pre

----------------------------------------------------------------------------
(* Properties of the loader task and of the request counter *)

\* C7: the cache loader runs as a task of the running process: once main
\* serves requests, start_cache_loader has been spawned.
C7_ReloaderRuns ==
    mainPc = "serving" => "cache_loader" \in tasks

\* C8: active_requests is the number of requests between their increment and
\* their decrement; it never underflows and is back at 0 when none is in flight.
C8_ActiveBalanced ==
    active_requests = InFlight

\* One request has been rejected and has returned, another has computed its
\* factors at High load and has not yet decremented.
C8_Witness ==
    /\ \E h \in Handlers : handler[h].pc = "done" /\ handler[h].response = "bad_request"
    /\ \E h \in Handlers : handler[h].pc = "finish" /\ handler[h].level = "High"
    /\ active_requests = 1

\* C9: every step of a request whose number is below 2 leaves the map and both
\* cache counters unchanged and runs no factorization; the request ends as a
\* rejection, and then active_requests counts the other requests in flight only.
C9_RejectedBeforeMutation ==
    [][\A h \in Handlers :
          (handler'[h] # handler[h] /\ handler'[h].pc # "idle" /\ handler'[h].number < 2) =>
              /\ UNCHANGED cacheVars
              /\ handler'[h].pc \in {"validate", "done"}
              /\ handler'[h].factors = <<>>
              /\ handler'[h].level = "none"
              /\ handler'[h].pc = "done" =>
                    /\ handler'[h].response = "bad_request"
                    /\ active_requests' = active_requests - 1
                    /\ active_requests' = InFlight']_vars

\* A request for 1 has been rejected after another request went through the
\* cache, which holds records.
C9_Witness ==
    /\ \E h \in Handlers :
          /\ handler[h].pc = "done"
          /\ handler[h].number = 1
          /\ handler[h].response = "bad_request"
    /\ total_requests = 1
    /\ inner # <<>>
    /\ active_requests = 0

\* C10: get_load_level is Low iff active < low_threshold, High iff
\* active > high_threshold and Normal otherwise; with the thresholds 3 and 15,
\* 2 is Low, 3 and 15 are Normal and 16 is High.
C10_LoadLevelBoundaries ==
    probe # "none" =>
        LET a == active_requests
            lo == config.low_load_threshold
            hi == config.high_load_threshold
        IN /\ probe \in {"Low", "Normal", "High"}
           /\ probe = "Low" <=> a < lo
           /\ probe = "High" <=> a > hi
           /\ probe = "Normal" <=> (a >= lo /\ a <= hi)
           /\ (lo = 3 /\ hi = 15) =>
                 /\ a = 2 => probe = "Low"
                 /\ a \in {3, 15} => probe = "Normal"
                 /\ a = 16 => probe = "High"

\* The count 15 has been classified Normal under the thresholds 3 and 15.
C10_Witness ==
    /\ probe = "Normal"
    /\ active_requests = 15
    /\ config.low_load_threshold = 3
    /\ config.high_load_threshold = 15

----------------------------------------------------------------------------
(* Properties of the thread allocation *)

\* C11: current_worker_threads is within [2, max_query_threads] in every
\* reachable state, from the constructor on, and every value
\* adjust_worker_threads computes and returns is within that range, for every
\* active count from 0 to far above the high threshold.
C11_WorkerThreadsInRange ==
    /\ 2 <= current_worker_threads
    /\ current_worker_threads <= config.max_query_threads
    /\ monitor.pc \in {"store", "adjusted"} =>
          /\ 2 <= monitor.new_threads
          /\ monitor.new_threads <= config.max_query_threads

\* adjust_worker_threads has returned the full 3 of 3 threads for 17 requests
\* in flight under a high threshold of 3, after a lower count was stored.
C11_Witness ==
    /\ monitor.pc = "adjusted"
    /\ monitor.current_load = 17
    /\ monitor.level_load = 17
    /\ config.high_load_threshold = 3
    /\ config.max_query_threads = 3
    /\ monitor.current_threads = 2
    /\ current_worker_threads = 3

\* C12: no configuration makes adjust_worker_threads fail: for every value of
\* max_query_threads the call returns.
C12_NoFalliblePath ==
    monitor.pc # "panicked"

\* C13: when both reads of the active count in one adjust_worker_threads call
\* see the same count a, the call returns, and current_worker_threads then
\* holds, the clamp to [2, max_query_threads] of: max(2, max/2) when a is below
\* the low threshold, max when a is above the high one, and otherwise max/2
\* when a < 5 and max*2/3 when a >= 5.
C13_AllocationPolicy ==
    (monitor.pc = "adjusted" /\ monitor.level_load = monitor.current_load) =>
        LET a == monitor.current_load
            mq == config.max_query_threads
            raw == IF a < config.low_load_threshold
                   THEN (IF mq \div 2 >= 2 THEN mq \div 2 ELSE 2)
                   ELSE IF a > config.high_load_threshold THEN mq
                   ELSE IF a < 5 THEN mq \div 2
                   ELSE (mq * 2) \div 3
            expected == IF raw < 2 THEN 2 ELSE IF raw > mq THEN mq ELSE raw
        IN /\ monitor.new_threads = expected
           /\ current_worker_threads = expected

\* A call that saw 5 requests at Normal load has raised the count from 4 to
\* 8*2/3 = 5.
C13_Witness ==
    /\ monitor.pc = "adjusted"
    /\ monitor.current_load = 5
    /\ monitor.level_load = 5
    /\ monitor.load_level = "Normal"
    /\ config.max_query_threads = 8
    /\ monitor.current_threads = 4
    /\ current_worker_threads = 5

\* C14: the step of calculate_compute_threads yields
\* max(1, (max_compute_threads + max_query_threads) - current_worker_threads),
\* which is at least 1, and the step of calculate_query_threads yields
\* current_worker_threads.
C14_ComputeShare ==
    [][/\ (lbstats.pc = "compute" /\ lbstats'.pc = "query") =>
             LET rest == (config.max_compute_threads + config.max_query_threads)
                           - current_worker_threads
             IN /\ lbstats'.recommended_compute_threads = (IF rest >= 1 THEN rest ELSE 1)
                /\ lbstats'.recommended_compute_threads >= 1
       /\ (lbstats.pc = "query" /\ lbstats'.pc = "size") =>
             lbstats'.recommended_query_threads = current_worker_threads]_vars

\* With no compute threads configured and all 8 query threads allocated, the
\* compute share has been floored at 1 and the query share read as 8.
C14_Witness ==
    /\ lbstats.pc = "size"
    /\ config.max_compute_threads = 0
    /\ config.max_query_threads = 8
    /\ lbstats.recommended_compute_threads = 1
    /\ lbstats.recommended_query_threads = 8

----------------------------------------------------------------------------
(* Properties of the load history *)

\* C15: the series never holds more than 100 samples in a state a get_stats
\* call can observe: the history_size of every get_stats result is at most 100.
C15_HistoryWithinCapacity ==
    lbstats.pc = "done" => lbstats.history_size <= 100

Min(a, b) == IF a <= b THEN a ELSE b

\* The last n elements of s.
LastSamples(s, n) == SubSeq(s, Len(s) - n + 1, Len(s))

\* C16: outside a record_load_history call the series holds the last
\* min(k, 100) of the k counts sampled so far, in the order they were sampled;
\* every tick has sampled exactly one count; and adjust_worker_threads of a
\* tick runs with that tick's sample already in the series.
C16_HistoryFifo ==
    /\ Len(samples) = ticks
    /\ monitor.pc \notin {"push", "trim"} =>
          load_history = LastSamples(samples, Min(ticks, 100))
    /\ monitor.pc \in {"adjust", "level", "threads", "store", "adjusted"} =>
          /\ ticks >= 1
          /\ load_history[Len(load_history)] = samples[ticks]

\* After 102 ticks the series holds 100 samples, the two oldest evicted, from
\* before and after the load rose.
C16_Witness ==
    /\ ticks = 102
    /\ monitor.pc = "adjusted"
    /\ Len(load_history) = 100
    /\ samples[2] = 0
    /\ samples[3] = 1
    /\ load_history[1] = 1

----------------------------------------------------------------------------
(* Properties of the factorization *)

IsPrimeNumber(p) == p >= 2 /\ \A d \in 2..(p - 1) : p % d # 0

RECURSIVE Product(_)
Product(s) == IF s = <<>> THEN 1 ELSE Head(s) * Product(Tail(s))

\* fs is the prime factorization of n: primes only, ascending, of product n.
PrimeFactorization(fs, n) ==
    /\ \A i \in 1..Len(fs) : IsPrimeNumber(fs[i])
    /\ \A i \in 1..(Len(fs) - 1) : fs[i] <= fs[i + 1]
    /\ Product(fs) = n

C18_FactorizeCorrect ==
    \A h \in Handlers :
        (handler[h].pc \in {"finish", "done"} /\ handler[h].level # "High") =>
            LET n == handler[h].number
                fs == handler[h].factors
            IN /\ PrimeFactorization(fs, n)
               /\ handler[h].is_prime <=> IsPrimeNumber(n)
               /\ n = 84 => fs = <<2, 2, 3, 7>>
               /\ n = 15 => fs = <<3, 5>>
               /\ n = 997 => fs = <<997>> /\ handler[h].is_prime

\* The request for 997 has been answered with [997] and is_prime.
C18_Witness ==
    /\ handler[1].pc = "done"
    /\ handler[1].response = "ok_computed"
    /\ handler[1].number = 997
    /\ handler[1].factors = <<997>>
    /\ handler[1].is_prime

----------------------------------------------------------------------------
(* Properties of the allocation beside concurrent requests *)

\* C19: the load level an adjust_worker_threads call used is the level of the
\* count it compared with 5 and reports, and the count it leaves stored is the
\* allocation for that one count.
C19_SingleObservation ==
    monitor.pc = "adjusted" =>
        LET level == get_load_level(monitor.current_load, config)
        IN /\ monitor.load_level = level
           /\ current_worker_threads =
                 Clamp(NewThreads(level, monitor.current_load, config),
                       2, config.max_query_threads)

\* C20: in every get_stats result, under a configuration with at least one
\* compute and two query threads, the two recommendations add up to
\* max_compute_threads + max_query_threads.
C20_BudgetPartition ==
    (/\ lbstats.pc \in {"size", "done"}
     /\ config.max_compute_threads >= 1
     /\ config.max_query_threads >= 2) =>
        lbstats.recommended_query_threads + lbstats.recommended_compute_threads
            = config.max_compute_threads + config.max_query_threads

\* C21: in every get_stats result the reported load_level is the
\* classification of the active_requests reported beside it (Low iff it is
\* below the low threshold, High iff it is above the high one), so the health
\* status made from the result is "degraded" exactly when the reported
\* active_requests exceeds the high threshold.
C21_LevelMatchesCount ==
    lbstats.pc = "done" =>
        LET a == lbstats.active_requests
        IN /\ lbstats.load_level = "Low" <=> a < config.low_load_threshold
           /\ lbstats.load_level = "High" <=> a > config.high_load_threshold
           /\ HealthStatus(lbstats.load_level) = "degraded"
                 <=> a > config.high_load_threshold

====
